---- MODULE Spec2Model ----
(***************************************************************************)
(* The Streamlit script app.py as a state machine.  One render pass is one *)
(* top-to-bottom run of the script; a widget interaction ends in a new     *)
(* pass.  Numbers on the time axis are integers in units of 1/Scale;       *)
(* coefficients are exact rationals [num, den].                            *)
(***************************************************************************)
EXTENDS Integers, Sequences, FiniteSets, TLC

VARIABLES
    comparison_mode,   \* the checkbox (line 31)
    country_1,         \* primary selectbox (line 47)
    country_2,         \* "None" or the comparison selectbox (lines 49-51)
    function_type,     \* model selectbox (line 68)
    xmin, xmax,        \* the range slider's two handles (line 96)
    country_params,    \* the coefficient table (lines 54-61)
    axes,              \* the three panels of the figure made at line 102
    pc,                \* position of the script in the current pass
    calls,             \* the arguments plot_country was invoked with, in order
    country,           \* plot_country's parameter
    linestyle,         \* plot_country's parameter
    f, f_prime, f_double,   \* plot_country's locals (lines 106-109)
    ys,                \* the arrays evaluated at lines 115-117 in this call
    failed,            \* which of the two try blocks took its except branch
    prev               \* output of the preceding pass when it had the same inputs

vars == <<comparison_mode, country_1, country_2, function_type, xmin, xmax,
          country_params, axes, pc, calls, country, linestyle,
          f, f_prime, f_double, ys, failed, prev>>

-----------------------------------------------------------------------------
(* Bounds and units *)

\* number of intervals of the slider grid explored by the model
Ticks == 9
\* how many multiples of pi/b the statement about sin(b*x) = 0 enumerates
KMax == 3

\* time-axis unit: 1/Scale
Scale == 10000
\* pi in units of 1/Scale
Pi == 31416
\* slider minimum 0.1, maximum 10.0, default handles (0.1, 5.0), float step 0.01
SliderMin == 1000
SliderMax == 100000
SliderDefaultHi == 50000
SliderStep == 100
\* np.linspace(xmin, xmax, 1000)
NumSamples == 1000

-----------------------------------------------------------------------------
(* Exact rationals for the float coefficients *)

Abs(n) == IF n < 0 THEN -n ELSE n

RECURSIVE Gcd(_, _)
Gcd(m, n) == IF n = 0 THEN m ELSE Gcd(n, m % n)

Rat(n, d) ==
    LET g == Gcd(Abs(n), Abs(d))
        s == IF d < 0 THEN -1 ELSE 1
    IN  [num |-> s * (n \div g), den |-> s * (d \div g)]

RInt(n) == Rat(n, 1)
RMul(p, q) == Rat(p.num * q.num, p.den * q.den)
RDiv(p, q) == Rat(p.num * q.den, p.den * q.num)
RNeg(p) == Rat(-p.num, p.den)

-----------------------------------------------------------------------------
(* Catalog *)

None == "None"

countries == <<"Spain", "Italy", "United States", "Mexico", "Japan", "Brazil">>

Countries == {countries[i] : i \in 1..Len(countries)}

CountryParamsFastSeason ==
    [c \in Countries |->
        CASE c = "Spain"         -> [a |-> Rat(12, 10), b |-> Rat(70, 100), c |-> Rat(3, 1)]
          [] c = "Italy"         -> [a |-> Rat(10, 10), b |-> Rat(30, 100), c |-> Rat(45, 10)]
          [] c = "United States" -> [a |-> Rat(15, 10), b |-> Rat(35, 100), c |-> Rat(6, 1)]
          [] c = "Mexico"        -> [a |-> Rat(11, 10), b |-> Rat(50, 100), c |-> Rat(25, 10)]
          [] c = "Japan"         -> [a |-> Rat(9, 10),  b |-> Rat(25, 100), c |-> Rat(5, 1)]
          [] c = "Brazil"        -> [a |-> Rat(13, 10), b |-> Rat(55, 100), c |-> Rat(3, 1)]]

CountryParams ==
    [c \in Countries |->
        CASE c = "Spain"         -> [a |-> Rat(12, 10), b |-> Rat(45, 100), c |-> Rat(3, 1)]
          [] c = "Italy"         -> [a |-> Rat(10, 10), b |-> Rat(30, 100), c |-> Rat(45, 10)]
          [] c = "United States" -> [a |-> Rat(15, 10), b |-> Rat(35, 100), c |-> Rat(6, 1)]
          [] c = "Mexico"        -> [a |-> Rat(11, 10), b |-> Rat(50, 100), c |-> Rat(25, 10)]
          [] c = "Japan"         -> [a |-> Rat(9, 10),  b |-> Rat(25, 100), c |-> Rat(5, 1)]
          [] c = "Brazil"        -> [a |-> Rat(13, 10), b |-> Rat(55, 100), c |-> Rat(3, 1)]]

Exponential == "Exponential (Market Growth)"
Logarithmic == "Logarithmic (Diminishing Returns)"
Polynomial == "Polynomial (Cost Structure)"
Trigonometric == "Trigonometric (Seasonality)"

FunctionTypes == <<Exponential, Logarithmic, Polynomial, Trigonometric>>

-----------------------------------------------------------------------------
(* Symbolic expressions: a sum of terms, coef * x^n or coef * fn(k*x) *)

Pow(c, n) == [fn |-> "pow", coef |-> c, k |-> RInt(1), n |-> n]
Fn(name, c, k) == [fn |-> name, coef |-> c, k |-> k, n |-> 0]

build_function(params) ==
    LET a == params.a
        b == params.b
        c == params.c
    IN  IF function_type = Exponential THEN <<Fn("exp", a, b), Pow(c, 0)>>
        ELSE IF function_type = Logarithmic THEN <<Fn("log", a, b), Pow(c, 0)>>
        ELSE IF function_type = Polynomial THEN <<Pow(a, 2), Pow(b, 1), Pow(c, 0)>>
        ELSE IF function_type = Trigonometric THEN <<Fn("sin", a, b), Pow(c, 0)>>
        ELSE <<>>

DiffTermNoChain(t) ==
    CASE t.fn = "pow" -> IF t.n = 0 THEN <<>>
                         ELSE <<Pow(RMul(t.coef, RInt(t.n)), t.n - 1)>>
      [] t.fn = "exp" -> <<Fn("exp", t.coef, t.k)>>
      [] t.fn = "log" -> <<Pow(RDiv(t.coef, t.k), -1)>>
      [] t.fn = "sin" -> <<Fn("cos", t.coef, t.k)>>
      [] t.fn = "cos" -> <<Fn("sin", RNeg(t.coef), t.k)>>

\* d/dx of one term (power rule, chain rule for fn(k*x))
DiffTerm(t) ==
    CASE t.fn = "pow" -> IF t.n = 0 THEN <<>>
                         ELSE <<Pow(RMul(t.coef, RInt(t.n)), t.n - 1)>>
      [] t.fn = "exp" -> <<Fn("exp", RMul(t.coef, t.k), t.k)>>
      [] t.fn = "log" -> <<Pow(RDiv(RMul(t.coef, t.k), t.k), -1)>>
      [] t.fn = "sin" -> <<Fn("cos", RMul(t.coef, t.k), t.k)>>
      [] t.fn = "cos" -> <<Fn("sin", RNeg(RMul(t.coef, t.k)), t.k)>>

RECURSIVE diff(_)
diff(e) == IF e = <<>> THEN <<>> ELSE DiffTerm(Head(e)) \o diff(Tail(e))

\* x is a free symbol of e
MentionsX(e) == \E i \in 1..Len(e) : e[i].fn # "pow" \/ e[i].n # 0

-----------------------------------------------------------------------------
(* Numeric evaluation and plotting *)

x_vals == [shape |-> <<NumSamples>>, expr |-> <<>>, lo |-> xmin, hi |-> xmax]

\* sp.lambdify(x, e, "numpy")(pts): vectorised over pts when e mentions x,
\* the bare constant otherwise
Evaluate(e, pts) ==
    IF MentionsX(e)
    THEN [shape |-> pts.shape, expr |-> e, lo |-> pts.lo, hi |-> pts.hi]
    ELSE [shape |-> <<>>, expr |-> e, lo |-> pts.lo, hi |-> pts.hi]

\* Axes.plot: y is promoted to at least one dimension and its first
\* dimension must equal that of x
PlotShape(y) == IF y.shape = <<>> THEN <<1>> ELSE y.shape
PlotOk(xs, y) == xs.shape[1] = PlotShape(y)[1]

EmptyAxes == [p \in 1..3 |-> [lines |-> <<>>, vlines |-> <<>>]]

AddLine(ax, p, y) ==
    [ax EXCEPT ![p].lines =
        Append(@, [y |-> y, linestyle |-> linestyle, label |-> country])]

AddVLine(ax, p, v, style) ==
    [ax EXCEPT ![p].vlines = Append(@, [x |-> v, linestyle |-> style, of |-> country])]

-----------------------------------------------------------------------------
(* Root solving *)

Root(v) == [val |-> v, is_real |-> TRUE]

\* m*pi/(d*k) in units of 1/Scale
PiMultiple(m, d, k) == (m * Pi * k.den) \div (d * k.num)

IsPolynomial(e) == \A i \in 1..Len(e) : e[i].fn = "pow" /\ e[i].n >= 0

\* sp.solve(e, x) for the expression shapes the four templates produce:
\*   c*exp(k*x), c/x, c/x^2, a constant     no solution
\*   c1*x + c0                              -c0/c1
\*   c*cos(k*x)                             pi/(2k), 3*pi/(2k)
\*   c*sin(k*x)                             0, pi/k
solve(e) ==
    IF Len(e) = 1 /\ e[1].fn = "sin"
        THEN <<Root(0), Root(PiMultiple(1, 1, e[1].k))>>
    ELSE IF Len(e) = 1 /\ e[1].fn = "cos"
        THEN <<Root(PiMultiple(1, 2, e[1].k)), Root(PiMultiple(3, 2, e[1].k))>>
    ELSE IF Len(e) = 2 /\ IsPolynomial(e) /\ e[1].n = 1 /\ e[2].n = 0
        THEN <<Root(-((e[2].coef.num * e[1].coef.den * Scale)
                        \div (e[2].coef.den * e[1].coef.num)))>>
    ELSE IF Len(e) = 1 /\ IsPolynomial(e) /\ e[1].n > 0
        THEN <<Root(0)>>
    ELSE <<>>

InRangeNoUpper(v) == xmin <= v

\* xmin <= float(cp) <= xmax
InRange(v) == xmin <= v /\ v <= xmax

CritPanels == {1, 2}
InflPanels == {1, 3}

RECURSIVE MarkPanels(_, _, _, _)
MarkPanels(ax, ps, v, style) ==
    IF ps = {} THEN ax
    ELSE LET p == CHOOSE q \in ps : \A r \in ps : q <= r
         IN  MarkPanels(AddVLine(ax, p, v, style), ps \ {p}, v, style)

\* the for loop over the solver's roots, from root i up to root stop
RECURSIVE MarkRoots(_, _, _, _, _, _)
MarkRoots(ax, roots, i, stop, ps, style) ==
    IF i > stop THEN ax
    ELSE LET r == roots[i]
             marked == IF r.is_real /\ InRange(r.val)
                       THEN MarkPanels(ax, ps, r.val, style)
                       ELSE ax
         IN  MarkRoots(marked, roots, i + 1, stop, ps, style)

\* One try block.  failAt = 0: sp.solve raises; failAt = i in 1..Len(roots):
\* cp.is_real or float(cp) raises for root i; failAt = Len(roots) + 1: nothing
\* raises.  The except branch only passes, so what was drawn stays drawn.
TryMark(ax, e, ps, style, failAt) ==
    LET roots == solve(e)
    IN  IF failAt = 0 THEN ax
        ELSE MarkRoots(ax, roots, 1, failAt - 1, ps, style)

NoFailure(e) == Len(solve(e)) + 1

-----------------------------------------------------------------------------
(* The script *)

Output == [axes |-> axes, pc |-> pc]
NoPrev == [axes |-> EmptyAxes, pc |-> "none"]
NotFailed == [crit |-> FALSE, infl |-> FALSE]

\* slider handles can rest on SliderMin + i*SliderStep; the model explores
\* Ticks + 1 evenly spread positions and the default upper handle
SliderPositions ==
    {SliderMin + ((i * ((SliderMax - SliderMin) \div SliderStep)) \div Ticks) * SliderStep
        : i \in 0..Ticks} \cup {SliderDefaultHi}

SliderRangesAnyOrder == SliderPositions \X SliderPositions

\* st.sidebar.slider with a tuple value: a (low, high) pair, low <= high
SliderRanges == {r \in SliderPositions \X SliderPositions : r[1] <= r[2]}

Init ==
    /\ comparison_mode = FALSE
    /\ country_1 = countries[1]
    /\ country_2 = None
    /\ function_type = FunctionTypes[1]
    /\ xmin = SliderMin
    /\ xmax = SliderDefaultHi
    /\ country_params = CountryParams
    /\ axes = EmptyAxes
    /\ pc = "call1"
    /\ calls = <<>>
    /\ country = None
    /\ linestyle = "-"
    /\ f = <<>>
    /\ f_prime = <<>>
    /\ f_double = <<>>
    /\ ys = <<>>
    /\ failed = NotFailed
    /\ prev = NoPrev

PassOver == pc \in {"done", "aborted"}

\* a rerun of the script up to line 102: a fresh figure, no locals
StartPass(keep) ==
    /\ PassOver
    /\ axes' = EmptyAxes
    /\ pc' = "call1"
    /\ calls' = <<>>
    /\ country' = None
    /\ linestyle' = "-"
    /\ f' = <<>>
    /\ f_prime' = <<>>
    /\ f_double' = <<>>
    /\ ys' = <<>>
    /\ failed' = NotFailed
    /\ prev' = IF keep THEN Output ELSE NoPrev
    /\ UNCHANGED country_params

ToggleComparison ==
    /\ StartPass(FALSE)
    /\ comparison_mode' = ~comparison_mode
    /\ country_2' = IF comparison_mode' THEN countries[2] ELSE None
    /\ UNCHANGED <<country_1, function_type, xmin, xmax>>

SelectPrimary ==
    /\ StartPass(FALSE)
    /\ \E c \in Countries \ {country_1} : country_1' = c
    /\ UNCHANGED <<comparison_mode, country_2, function_type, xmin, xmax>>

SelectComparison ==
    /\ StartPass(FALSE)
    /\ comparison_mode
    /\ \E c \in Countries \ {country_2} : country_2' = c
    /\ UNCHANGED <<comparison_mode, country_1, function_type, xmin, xmax>>

SelectFunctionType ==
    /\ StartPass(FALSE)
    /\ \E i \in 1..Len(FunctionTypes) :
          /\ FunctionTypes[i] # function_type
          /\ function_type' = FunctionTypes[i]
    /\ UNCHANGED <<comparison_mode, country_1, country_2, xmin, xmax>>

MoveSlider ==
    /\ StartPass(FALSE)
    /\ \E r \in SliderRanges \ {<<xmin, xmax>>} : xmin' = r[1] /\ xmax' = r[2]
    /\ UNCHANGED <<comparison_mode, country_1, country_2, function_type>>

\* the script runs again with every widget unchanged
Rerun ==
    /\ StartPass(TRUE)
    /\ UNCHANGED <<comparison_mode, country_1, country_2, function_type, xmin, xmax>>

ParamsAfterCallCleared(c) ==
    IF c \in DOMAIN country_params
    THEN [country_params EXCEPT ![c].c = RInt(0)]
    ELSE country_params

\* plot_country and build_function only read the table
ParamsAfterCall(c) == country_params

\* plot_country(c, ls), lines 105-109
Call(c, ls) ==
    /\ calls' = Append(calls, c)
    /\ country' = c
    /\ linestyle' = ls
    /\ ys' = <<>>
    /\ failed' = NotFailed
    /\ country_params' = ParamsAfterCall(c)
    /\ IF c \in DOMAIN country_params
       THEN LET e == build_function(country_params[c])
            IN  /\ f' = e
                /\ f_prime' = diff(e)
                /\ f_double' = diff(diff(e))
                /\ pc' = "plot"
       ELSE /\ pc' = "aborted"
            /\ UNCHANGED <<f, f_prime, f_double>>
    /\ UNCHANGED <<comparison_mode, country_1, country_2, function_type, xmin, xmax,
                   axes, prev>>

CallPrimary ==
    /\ pc = "call1"
    /\ Call(country_1, "-")

\* lines 111-117: evaluate and plot the three curves in order; the first
\* plot that raises ends the pass
PlotCurves ==
    /\ pc = "plot"
    /\ LET y1 == Evaluate(f, x_vals)
           y2 == Evaluate(f_prime, x_vals)
           y3 == Evaluate(f_double, x_vals)
           ok1 == PlotOk(x_vals, y1)
           ok2 == ok1 /\ PlotOk(x_vals, y2)
           ok3 == ok2 /\ PlotOk(x_vals, y3)
           a1 == IF ok1 THEN AddLine(axes, 1, y1) ELSE axes
           a2 == IF ok2 THEN AddLine(a1, 2, y2) ELSE a1
           a3 == IF ok3 THEN AddLine(a2, 3, y3) ELSE a2
       IN  /\ ys' = IF ~ok1 THEN <<y1>> ELSE IF ~ok2 THEN <<y1, y2>> ELSE <<y1, y2, y3>>
           /\ axes' = a3
           /\ pc' = IF ok3 THEN "crit" ELSE "aborted"
    /\ UNCHANGED <<comparison_mode, country_1, country_2, function_type, xmin, xmax,
                   country_params, calls, country, linestyle, f, f_prime, f_double,
                   failed, prev>>

\* lines 120-127
CriticalPoints(failAt) ==
    /\ pc = "crit"
    /\ axes' = TryMark(axes, f_prime, CritPanels, "--", failAt)
    /\ failed' = [failed EXCEPT !.crit = failAt <= Len(solve(f_prime))]
    /\ pc' = "infl"
    /\ UNCHANGED <<comparison_mode, country_1, country_2, function_type, xmin, xmax,
                   country_params, calls, country, linestyle, f, f_prime, f_double,
                   ys, prev>>

\* lines 130-137
InflectionPoints(failAt) ==
    /\ pc = "infl"
    /\ axes' = TryMark(axes, f_double, InflPanels, ":", failAt)
    /\ failed' = [failed EXCEPT !.infl = failAt <= Len(solve(f_double))]
    /\ pc' = "ret"
    /\ UNCHANGED <<comparison_mode, country_1, country_2, function_type, xmin, xmax,
                   country_params, calls, country, linestyle, f, f_prime, f_double,
                   ys, prev>>

SolveCritical == CriticalPoints(NoFailure(f_prime))
SolveInflection == InflectionPoints(NoFailure(f_double))

\* the library raising inside a try block
SolveCriticalRaises == \E i \in 0..Len(solve(f_prime)) : CriticalPoints(i)
SolveInflectionRaises == \E i \in 0..Len(solve(f_double)) : InflectionPoints(i)

ComparisonGuardNoMode == country_2 # country_1

\* line 143
ComparisonGuard == comparison_mode /\ country_2 # country_1

CallComparison ==
    /\ pc = "ret"
    /\ Len(calls) = 1
    /\ ComparisonGuard
    /\ Call(country_2, "--")

\* lines 149-164: labels, legend, st.pyplot(fig)
Finish ==
    /\ pc = "ret"
    /\ Len(calls) > 1 \/ ~ComparisonGuard
    /\ pc' = "done"
    /\ UNCHANGED <<comparison_mode, country_1, country_2, function_type, xmin, xmax,
                   country_params, axes, calls, country, linestyle,
                   f, f_prime, f_double, ys, failed, prev>>

Next ==
    \/ ToggleComparison
    \/ SelectPrimary
    \/ SelectComparison
    \/ SelectFunctionType
    \/ MoveSlider
    \/ Rerun
    \/ CallPrimary
    \/ PlotCurves
    \/ SolveCritical
    \/ SolveInflection
    \/ CallComparison
    \/ Finish

Spec == Init /\ [][Next]_vars

\* the same script with a solver that may raise inside either try block
NextFault ==
    \/ Next
    \/ SolveCriticalRaises
    \/ SolveInflectionRaises

SpecFault == Init /\ [][NextFault]_vars

-----------------------------------------------------------------------------
(* Properties *)

CurveCount(p) == Len(axes[p].lines)

\* x positions of the vertical lines of one style that the call for country c
\* placed on panel p
Marks(p, c, style) ==
    {axes[p].vlines[i].x :
        i \in {j \in 1..Len(axes[p].vlines) :
                  axes[p].vlines[j].linestyle = style /\ axes[p].vlines[j].of = c}}

\* the real roots within [xmin, xmax], both bounds inclusive, among the roots
\* the solver returns for expression e
RootsInRange(e) ==
    LET roots == solve(e)
    IN  {roots[i].val :
            i \in {j \in 1..Len(roots) :
                      roots[j].is_real /\ xmin <= roots[j].val /\ roots[j].val <= xmax}}

\* C1: when a pass is over, every panel holds the same number of curves: 2
\* when comparison mode is on and country_2 differs from country_1, else 1.
C1_CurvesPerPanel ==
    PassOver =>
        \A p \in 1..3 :
            CurveCount(p) = IF comparison_mode /\ country_2 # country_1 THEN 2 ELSE 1

\* C2: no render pass aborts; every pass reaches the chart-output step.
C2_PassNeverAborts == pc # "aborted"

C4_MarkerPlacement ==
    (pc = "ret" \/ PassOver) =>
        \A i \in 1..Len(calls) :
            LET c == calls[i]
                e == build_function(country_params[c])
                C == RootsInRange(diff(e))
                I == RootsInRange(diff(diff(e)))
            IN  /\ Marks(1, c, "--") = C
                /\ Marks(1, c, ":") = I
                /\ Marks(2, c, "--") = C
                /\ Marks(2, c, ":") = {}
                /\ Marks(3, c, "--") = {}
                /\ Marks(3, c, ":") = I

\* a finished Trigonometric pass with a dashed and a dotted marker on the
\* function panel and a critical root of the solver left out of the range
C4_Witness ==
    /\ pc = "done"
    /\ function_type = Trigonometric
    /\ Marks(1, country_1, "--") # {}
    /\ Marks(1, country_1, ":") # {}
    /\ Cardinality(Marks(2, country_1, "--")) < Len(solve(f_prime))

\* C5: every array evaluated at lines 115-117 has one value per sample point.
C5_OneValuePerSample ==
    \A i \in 1..Len(ys) : ys[i].shape = <<NumSamples>>

\* closed forms of the templates' derivatives
ClosedFirst(t, p) ==
    CASE t = Exponential   -> <<Fn("exp", RMul(p.a, p.b), p.b)>>
      [] t = Logarithmic   -> <<Pow(p.a, -1)>>
      [] t = Polynomial    -> <<Pow(RMul(RInt(2), p.a), 1), Pow(p.b, 0)>>
      [] t = Trigonometric -> <<Fn("cos", RMul(p.a, p.b), p.b)>>

ClosedSecond(t, p) ==
    CASE t = Exponential   -> <<Fn("exp", RMul(p.a, RMul(p.b, p.b)), p.b)>>
      [] t = Logarithmic   -> <<Pow(RNeg(p.a), -2)>>
      [] t = Polynomial    -> <<Pow(RMul(RInt(2), p.a), 0)>>
      [] t = Trigonometric -> <<Fn("sin", RNeg(RMul(p.a, RMul(p.b, p.b))), p.b)>>

\* C6: inside plot_country f is the template of the country, f_prime and
\* f_double are the closed-form first and second derivatives, and every curve
\* on the derivative panels is the closed form for the country it is labelled
\* with.
C6_DerivativesClosedForm ==
    /\ pc \in {"plot", "crit", "infl", "ret"} =>
          /\ f = build_function(country_params[country])
          /\ f_prime = ClosedFirst(function_type, country_params[country])
          /\ f_double = ClosedSecond(function_type, country_params[country])
    /\ \A i \in 1..Len(axes[2].lines) :
          axes[2].lines[i].y.expr =
              ClosedFirst(function_type, country_params[axes[2].lines[i].label])
    /\ \A i \in 1..Len(axes[3].lines) :
          axes[3].lines[i].y.expr =
              ClosedSecond(function_type, country_params[axes[3].lines[i].label])

\* a finished comparison pass of the Logarithmic family, both curves drawn
C6_Witness ==
    /\ pc = "done"
    /\ function_type = Logarithmic
    /\ Len(axes[2].lines) = 2
    /\ Len(axes[3].lines) = 2

\* every k*pi/b, k in 0..KMax, within [xmin, xmax]
SinZerosInRange(b) ==
    {z \in {PiMultiple(k, 1, b) : k \in 0..KMax} : xmin <= z /\ z <= xmax}

\* C7: in a Trigonometric pass the dotted markers of each plotted country are
\* all the zeros of sin(b*x) inside [xmin, xmax].
C7_AllSineZerosMarked ==
    (function_type = Trigonometric /\ pc \in {"ret", "done"}) =>
        \A i \in 1..Len(calls) :
            /\ Marks(1, calls[i], ":") = SinZerosInRange(country_params[calls[i]].b)
            /\ Marks(3, calls[i], ":") = SinZerosInRange(country_params[calls[i]].b)

\* a finished Trigonometric pass over the whole slider range whose country has
\* a zero of sin(b*x) in the range
C7_Witness ==
    /\ pc = "done"
    /\ function_type = Trigonometric
    /\ xmin = SliderMin
    /\ xmax = SliderMax
    /\ Marks(3, country_1, ":") # {}

C10_CallsUseCatalogKeys ==
    /\ ~comparison_mode => country_2 = None
    /\ Len(calls) <= 2
    /\ \A i \in 1..Len(calls) : calls[i] # None /\ calls[i] \in DOMAIN country_params
    /\ Len(calls) >= 1 => calls[1] = country_1
    /\ Len(calls) = 2 => comparison_mode /\ calls[2] = country_2

\* a finished pass that plotted the primary and then the comparison country
C10_Witness ==
    /\ pc = "done"
    /\ comparison_mode
    /\ calls = <<country_1, country_2>>

====
